---------------------------- MODULE Spec2Model ----------------------------
(***************************************************************************)
(* MineSweeperSolver (src/mineSweeperSolver.py, src/models.py): the board  *)
(* model, the pixel classifier, the status detector and the polling loop   *)
(* of start().  Wall-clock fields (game_start_time, time_played) carry no  *)
(* control flow and are left out of the records.                           *)
(***************************************************************************)
EXTENDS Integers, Sequences, FiniteSets, TLC

(***************************************************************************)
(* Bounds of the model.                                                    *)
(***************************************************************************)
\* most fields of a board explored (custom = (columns, rows, mines))
MaxCells == 2
\* largest play_games explored
MaxGames == 2
\* most ONGOING polls the display shows within one game
MaxMoves == 2
\* most fields of a board classified exhaustively (SpecClassify)
MaxClassifyCells == 1
\* most fields of a board under the board operations alone (SpecBoard)
MaxBoardCells == 4
\* most games of a history handed to create_stats (SpecStats)
MaxHistory == 6

(***************************************************************************)
(* Program constants.                                                      *)
(***************************************************************************)
FIELD_DIAMETER == 32
FIELD_BORDER_OFFSET == 12
CONSISTENCY_K == 5
DEAD_SMILEY_MOUTH_CORNER_POS == <<8, 25>>
COOL_SMILEY_GLASSES_CENTER_POS == <<16, 11>>
BLACK == <<0, 0, 0>>

FieldValue ==
    {"UNDISCOVERED", "FLAGGED", "EMPTY", "ONE", "TWO", "THREE", "FOUR",
     "FIVE", "SIX", "SEVEN", "EIGHT"}

COLOR_MAP_swapped ==
    (<<255, 255, 255>> :> "UNDISCOVERED") @@ (<<0, 0, 255>> :> "ONE") @@
    (<<0, 123, 0>> :> "TWO") @@ (<<255, 0, 0>> :> "THREE") @@
    (<<0, 0, 123>> :> "FOUR") @@ (<<128, 0, 0>> :> "FIVE") @@
    (<<19, 130, 130>> :> "SIX") @@ (<<0, 0, 0>> :> "EIGHT") @@
    (<<123, 123, 123>> :> "SEVEN")

COLOR_MAP ==
    (<<255, 255, 255>> :> "UNDISCOVERED") @@ (<<0, 0, 255>> :> "ONE") @@
    (<<0, 123, 0>> :> "TWO") @@ (<<255, 0, 0>> :> "THREE") @@
    (<<0, 0, 123>> :> "FOUR") @@ (<<128, 0, 0>> :> "FIVE") @@
    (<<19, 130, 130>> :> "SIX") @@ (<<0, 0, 0>> :> "SEVEN") @@
    (<<123, 123, 123>> :> "EIGHT")

\* dict.get(key, default)
get(map, key, default) == IF key \in DOMAIN map THEN map[key] ELSE default

(***************************************************************************)
(* What the screen can show.                                               *)
(***************************************************************************)
\* a colour outside the palette (the revealed-empty grey)
OtherColor == <<192, 192, 192>>
\* every palette colour and one colour outside it
AllColors == DOMAIN COLOR_MAP \cup {OtherColor}
\* colours of the upper edge of a field: covered, revealed, or a dark frame
BorderColors == {<<255, 255, 255>>, <<128, 128, 128>>, <<0, 0, 0>>}
\* colours the board raster shows while the loop of start() is explored:
\* at the upper edge of a field, and at its centre
ScreenBorderColors == {<<255, 255, 255>>, <<128, 128, 128>>}
ScreenColors == {<<255, 255, 255>>, <<0, 0, 255>>, OtherColor}
\* colours of the two status pixels of the smiley raster
SmileyColors == {BLACK, <<255, 255, 0>>}
\* where locateCenterOnScreen found the first field
origin_field_pos == <<100, 200>>

VARIABLES
    \* MineSweeperSolver attributes
    columns, rows, total_mines, play_games, stop_after_win,
    moves_made, total_moves, best_win_moves, game_history, board,
    \* start(): arguments, locals, position
    pc, exception, user_enters_username, games_completed, last_game_status,
    status,
    \* start(): the window_size argument and the value returned
    window_size, stats,
    \* __init__: the arguments of the call, the anchor images on the screen
    init_args, located,
    \* the raster under classification (SpecClassify)
    screenshot,
    \* observers of the run
    debounced, terminal_runs, strategy_calls, ongoing_ticks, observed

solver_vars ==
    <<columns, rows, total_mines, play_games, stop_after_win, moves_made,
      total_moves, best_win_moves, game_history, board>>
start_vars ==
    <<pc, exception, user_enters_username, games_completed, last_game_status,
      status>>
observer_vars ==
    <<debounced, terminal_runs, strategy_calls, ongoing_ticks, observed>>
stats_vars == <<window_size, stats>>
init_vars == <<init_args, located>>
vars ==
    <<solver_vars, start_vars, stats_vars, init_vars, screenshot,
      observer_vars>>

(***************************************************************************)
(* Geometry and the board model.                                           *)
(***************************************************************************)
id_from_rc_column_major(row, col) == row + col * rows

id_from_rc(row, col) == col + row * columns

_get_center_field_pos(row, column) ==
    <<origin_field_pos[1] + (column * FIELD_DIAMETER),
      origin_field_pos[2] + (row * FIELD_DIAMETER)>>

_compute_field_positions_rel_to_board(screen_pos, field_radius) ==
    <<screen_pos[1] - origin_field_pos[1] + field_radius,
      screen_pos[2] - origin_field_pos[2] + field_radius>>

Field(pos_to_screen, pos_to_board, id) ==
    [pos_to_screen |-> pos_to_screen, pos_to_board |-> pos_to_board,
     id |-> id, value |-> "UNDISCOVERED"]

_initialize_game_board(field_radius) ==
    [r \in 0 .. rows - 1 |->
        [c \in 0 .. columns - 1 |->
            Field(_get_center_field_pos(r, c),
                  _compute_field_positions_rel_to_board(
                      _get_center_field_pos(r, c), field_radius),
                  id_from_rc(r, c))]]

\* the (row, column) indices of board b
Cells(b) == UNION {{<<r, c>> : c \in DOMAIN b[r]} : r \in DOMAIN b}

\* the pixel above the centre of a field, and the centre
BorderPoint(field) ==
    <<field.pos_to_board[1], field.pos_to_board[2] - FIELD_BORDER_OFFSET>>
CenterPoint(field) == <<field.pos_to_board[1], field.pos_to_board[2]>>

BorderPoints(b) == {BorderPoint(b[rc[1]][rc[2]]) : rc \in Cells(b)}
CenterPoints(b) == {CenterPoint(b[rc[1]][rc[2]]) : rc \in Cells(b)}

\* the rasters sct.grab(board_region) can return, at the pixels that are read
Rasters(b, borders, centers) ==
    {bs @@ cs : bs \in [BorderPoints(b) -> borders],
                cs \in [CenterPoints(b) -> centers]}

reset_board_partial(b) ==
    [r \in DOMAIN b |->
        [c \in DOMAIN b[r] |->
            IF c = 0 THEN b[r][c]
            ELSE [b[r][c] EXCEPT !.value = "UNDISCOVERED"]]]

reset_board(b) ==
    [r \in DOMAIN b |->
        [c \in DOMAIN b[r] |-> [b[r][c] EXCEPT !.value = "UNDISCOVERED"]]]

_update_board_all(b, shot) ==
    [r \in DOMAIN b |->
        [c \in DOMAIN b[r] |->
            LET field == b[r][c]
                border_color == shot[BorderPoint(field)]
                center_color == shot[CenterPoint(field)]
            IN  IF get(COLOR_MAP, border_color, "None") = "UNDISCOVERED"
                THEN field
                ELSE [field EXCEPT
                        !.value = get(COLOR_MAP, center_color, "EMPTY")]]]

_update_board_center_only(b, shot) ==
    [r \in DOMAIN b |->
        [c \in DOMAIN b[r] |->
            LET field == b[r][c]
                center_color == shot[CenterPoint(field)]
            IN  IF field.value # "UNDISCOVERED"
                THEN field
                ELSE [field EXCEPT
                        !.value = get(COLOR_MAP, center_color, "EMPTY")]]]

_update_board(b, shot) ==
    [r \in DOMAIN b |->
        [c \in DOMAIN b[r] |->
            LET field == b[r][c]
                border_color == shot[BorderPoint(field)]
                center_color == shot[CenterPoint(field)]
            IN  IF field.value # "UNDISCOVERED"
                THEN field
                ELSE IF get(COLOR_MAP, border_color, "None") = "UNDISCOVERED"
                THEN field
                ELSE [field EXCEPT
                        !.value = get(COLOR_MAP, center_color, "EMPTY")]]]

click_field_marks(b, r, c) == [b EXCEPT ![r][c].value = "EMPTY"]

\* a left click: the solver's own state is untouched
click_field(b, r, c) == b

toggle_flag(b, r, c) ==
    [b EXCEPT ![r][c].value =
        IF @ # "FLAGGED" THEN "FLAGGED" ELSE "UNDISCOVERED"]

check_game_status_never_terminal(shot) == "ongoing"

check_game_status(shot) ==
    IF shot[DEAD_SMILEY_MOUTH_CORNER_POS] = BLACK THEN "win"
    ELSE IF shot[COOL_SMILEY_GLASSES_CENTER_POS] = BLACK THEN "loss"
    ELSE "ongoing"

SmileyShots ==
    [{DEAD_SMILEY_MOUTH_CORNER_POS, COOL_SMILEY_GLASSES_CENTER_POS}
        -> SmileyColors]

_log_game_after_zeroing(history, game_id, game_result, moves) ==
    Append(history,
           [id |-> game_id, result |-> game_result, total_moves |-> 0])

_log_game(history, game_id, game_result, moves) ==
    Append(history,
           [id |-> game_id, result |-> game_result, total_moves |-> moves])

min(a, b) == IF a <= b THEN a ELSE b

max(a, b) == IF a >= b THEN a ELSE b

(***************************************************************************)
(* create_stats and calculate_consistency.  Python's true division is kept *)
(* exact: a quotient is a reduced fraction with a positive denominator.    *)
(* The wall-clock figures (time_played, the "timing" block and             *)
(* fastest_win_time) are left out.                                         *)
(***************************************************************************)
abs(a) == IF a < 0 THEN -a ELSE a

RECURSIVE gcd(_, _)
gcd(a, b) == IF b = 0 THEN a ELSE gcd(b, a % b)

\* n / d for d # 0
Fraction(n, d) ==
    LET s == IF d < 0 THEN -1 ELSE 1
        g == gcd(abs(n), abs(d))
    IN  [num |-> (s * n) \div g, den |-> (s * d) \div g]

FractionAdd(a, b) == Fraction(a.num * b.den + b.num * a.den, a.den * b.den)

FractionSub(a, b) == Fraction(a.num * b.den - b.num * a.den, a.den * b.den)

\* a / n for an int n # 0
FractionDiv(a, n) == Fraction(a.num, a.den * n)

\* sum() of a list of ints
RECURSIVE sum(_)
sum(xs) == IF xs = <<>> THEN 0 ELSE Head(xs) + sum(Tail(xs))

\* sum() of a list of quotients
RECURSIVE fsum(_)
fsum(xs) ==
    IF xs = <<>> THEN Fraction(0, 1) ELSE FractionAdd(Head(xs), fsum(Tail(xs)))

\* what a raising call yields
ZeroDivisionError == [ok |-> FALSE]

\* lines 562-572
calculate_consistency(result, k) ==
    LET n == max(Len(result) - k + 1, 0)
        rates ==
            [i \in 1 .. n |->
                Fraction(sum(SubSeq(result, i, i + k - 1)), k)]
        mean == FractionDiv(fsum(rates), Len(rates))
    IN  IF (n > 0 /\ k = 0) \/ Len(rates) = 0
        THEN ZeroDivisionError
        ELSE [ok |-> TRUE,
              value |->
                  FractionDiv(
                      fsum([i \in 1 .. n |-> FractionSub(rates[i], mean)]),
                      Len(rates))]

\* line 456
wins(history) ==
    Cardinality({i \in DOMAIN history : history[i].result = "win"})

\* line 457
sum_total_moves(history) ==
    sum([i \in DOMAIN history |-> history[i].total_moves])

total_win_moves_unfiltered(history) ==
    sum([i \in DOMAIN history |-> history[i].total_moves])

\* line 458
total_win_moves(history) ==
    sum([i \in DOMAIN history |->
            IF history[i].result = "win" THEN history[i].total_moves ELSE 0])

\* lines 464-467: groupby over the results, as <<result, run length>>
RECURSIVE streaks(_)
streaks(history) ==
    IF history = <<>> THEN <<>>
    ELSE LET rest == streaks(Tail(history))
             res == Head(history).result
         IN  IF rest # <<>> /\ rest[1][1] = res
             THEN <<(<<res, rest[1][2] + 1>>)>> \o Tail(rest)
             ELSE <<(<<res, 1>>)>> \o rest

\* lines 469-470: max(run for res, run in streaks if res == ..., default=0)
max_streak(runs, result) ==
    LET lengths ==
            {runs[i][2] : i \in {j \in DOMAIN runs : runs[j][1] = result}}
    IN  IF lengths = {} THEN 0
        ELSE CHOOSE m \in lengths : \A l \in lengths : l <= m

\* lines 456-522, for self.game_history and self.best_win_moves
create_stats(completed, window) ==
    LET losses == completed - wins(game_history)
        total_loss_moves ==
            sum_total_moves(game_history) - total_win_moves(game_history)
        \* line 489: None and 0 are both falsy
        window_used ==
            IF window = <<>> \/ window[1] = 0
            THEN max(completed \div 30, 3) ELSE window[1]
        \* line 490: called without k
        consistency ==
            calculate_consistency(
                [i \in DOMAIN game_history |->
                    IF game_history[i].result = "win" THEN 1 ELSE -1],
                CONSISTENCY_K)
    IN  IF ~consistency.ok THEN ZeroDivisionError
        ELSE IF completed = 0 THEN ZeroDivisionError
        ELSE [ok |-> TRUE,
              value |->
                [games_played |-> completed,
                 wins |-> wins(game_history),
                 losses |-> losses,
                 win_rate |-> Fraction(wins(game_history), completed),
                 longest_win_streak |->
                     max_streak(streaks(game_history), "win"),
                 longest_loss_streak |->
                     max_streak(streaks(game_history), "loss"),
                 moves |->
                    [total_moves |-> sum_total_moves(game_history),
                     total_moves_wins |-> total_win_moves(game_history),
                     avg_moves_win |->
                         IF wins(game_history) # 0
                         THEN Fraction(total_win_moves(game_history),
                                       wins(game_history))
                         ELSE Fraction(0, 1),
                     total_moves_losses |-> total_loss_moves,
                     avg_moves_loss |->
                         IF losses # 0
                         THEN Fraction(total_loss_moves, losses)
                         ELSE Fraction(0, 1)],
                 best_results |->
                    [least_moves_played_win |-> best_win_moves],
                 consistency |-> consistency.value,
                 window_size |-> window_used]]

(***************************************************************************)
(* The state the assignments of __init__ establish (lines 104-139), for a  *)
(* custom board size.  Locating the two anchors (lines 91-102) comes       *)
(* before them and is not part of this state.                              *)
(***************************************************************************)
InitSolver ==
    /\ columns \in 1 .. MaxCells
    /\ rows \in 1 .. MaxCells
    /\ columns * rows <= MaxCells
    /\ total_mines = 1
    /\ play_games \in 0 .. MaxGames
    /\ stop_after_win \in BOOLEAN
    /\ moves_made = 0
    /\ total_moves = 0
    /\ best_win_moves = rows * columns + 1
    /\ game_history = <<>>
    /\ board = _initialize_game_board(FIELD_DIAMETER \div 2)

\* the call of __init__ that made this solver: both anchors were on the
\* screen, the arguments are what lines 105-110 stored
InitConstructed ==
    /\ located = [first_field |-> TRUE, happy_smiley |-> TRUE]
    /\ init_args =
           [custom |-> <<columns, rows, total_mines>>,
            play_games |-> play_games,
            stop_after_win |-> stop_after_win]

InitObservers ==
    /\ debounced = FALSE
    /\ terminal_runs = 0
    /\ strategy_calls = 0
    /\ ongoing_ticks = 0
    /\ observed = <<>>

Init ==
    /\ InitSolver
    /\ pc = "idle"
    /\ exception = ""
    /\ user_enters_username = TRUE
    /\ games_completed = 0
    /\ last_game_status = ""
    /\ status = ""
    /\ screenshot = <<>>
    /\ window_size = <<>>
    /\ stats = <<>>
    /\ InitConstructed
    /\ InitObservers

(***************************************************************************)
(* start(): lines 230-245.                                                 *)
(***************************************************************************)
\* line 230: the confirmation pause is asked for without stop_after_win
ConflictIgnored(uu) == FALSE

Conflict(uu) == uu /\ ~stop_after_win

Start(uu, smiley_found) ==
    /\ pc = "idle"
    /\ user_enters_username' = uu
    /\ IF Conflict(uu)
       THEN /\ pc' = "raised"
            /\ exception' = "AttributeError"
            /\ UNCHANGED <<games_completed, last_game_status>>
       ELSE /\ games_completed' = 0
            /\ last_game_status' = ""
            /\ IF smiley_found
               THEN pc' = "loop" /\ exception' = exception
               ELSE pc' = "raised" /\ exception' = "ValueError"
    /\ UNCHANGED init_vars
    /\ UNCHANGED <<solver_vars, status, stats_vars, screenshot,
                   observer_vars>>

\* the while condition of the main loop
LoopConditionOffByOne == games_completed <= play_games

LoopCondition == games_completed < play_games

\* line 254: the same terminal status as on the previous tick
IsRepeatNever(st, last) == FALSE

IsRepeat(st, last) == st = last /\ st # "ongoing"

\* lines 248-256: poll the status, skip a repeated terminal observation
Poll(smiley_shot) ==
    /\ pc = "loop"
    /\ LoopCondition
    /\ LET st == check_game_status(smiley_shot) IN
        /\ st = "ongoing" => moves_made < MaxMoves
        /\ status' = st
        /\ terminal_runs' =
               IF st # "ongoing" /\ st # status
               THEN terminal_runs + 1 ELSE terminal_runs
        /\ ongoing_ticks' =
               IF st = "ongoing" THEN ongoing_ticks + 1 ELSE ongoing_ticks
        /\ IF IsRepeat(st, last_game_status)
           THEN /\ debounced' = TRUE
                /\ UNCHANGED <<pc, last_game_status>>
           ELSE /\ debounced' = FALSE
                /\ last_game_status' = st
                /\ pc' = "strategy"
    /\ UNCHANGED init_vars
    /\ UNCHANGED <<solver_vars, exception, user_enters_username,
                   games_completed, stats_vars, screenshot, strategy_calls,
                   observed>>

StrategyActs ==
    {<<"none", 0, 0>>}
        \cup {<<op, rc[1], rc[2]>> : op \in {"click_field", "toggle_flag"},
                                     rc \in Cells(board)}

\* lines 258-260: the injected strategy (at most one action), the counters
NextMoveStrategy(act) ==
    /\ pc = "strategy"
    /\ board' =
           CASE act[1] = "click_field" -> click_field(board, act[2], act[3])
             [] act[1] = "toggle_flag" -> toggle_flag(board, act[2], act[3])
             [] OTHER -> board
    /\ moves_made' = moves_made + 1
    /\ total_moves' = total_moves + 1
    /\ strategy_calls' = strategy_calls + 1
    /\ pc' = IF status = "ongoing" THEN "update" ELSE "terminal"
    /\ UNCHANGED init_vars
    /\ UNCHANGED <<columns, rows, total_mines, play_games, stop_after_win,
                   best_win_moves, game_history, exception,
                   user_enters_username, games_completed, last_game_status,
                   status, stats_vars, screenshot, debounced, terminal_runs,
                   ongoing_ticks, observed>>

\* lines 267-269
UpdateBoard(shot) ==
    /\ pc = "update"
    /\ board' = _update_board(board, shot)
    /\ pc' = "loop"
    /\ UNCHANGED init_vars
    /\ UNCHANGED <<columns, rows, total_mines, play_games, stop_after_win,
                   moves_made, total_moves, best_win_moves, game_history,
                   exception, user_enters_username, games_completed,
                   last_game_status, status, stats_vars, screenshot,
                   observer_vars>>

\* line 287: leave the loop after this terminal observation
BreaksOnAnyTerminal(st) == stop_after_win

Breaks(st) == st # "loss" /\ stop_after_win

\* lines 271-290: a new terminal observation
Terminal ==
    /\ pc = "terminal"
    /\ games_completed' = games_completed + 1
    /\ game_history' =
           _log_game(game_history, games_completed + 1, "win", moves_made)
    /\ moves_made' = 0
    /\ best_win_moves' =
           IF status = "loss" THEN best_win_moves
           ELSE min(moves_made', best_win_moves)
    /\ IF Breaks(status)
       THEN pc' = "create_stats" /\ board' = board
       ELSE pc' = "loop" /\ board' = reset_board(board)
    /\ observed' =
           Append(observed,
                  [status |-> status, ongoing_ticks |-> ongoing_ticks])
    /\ ongoing_ticks' = 0
    /\ UNCHANGED init_vars
    /\ UNCHANGED <<columns, rows, total_mines, play_games, stop_after_win,
                   total_moves, exception, user_enters_username,
                   last_game_status, status, stats_vars, screenshot,
                   debounced, terminal_runs, strategy_calls>>

\* the while condition fails
LoopExit ==
    /\ pc = "loop"
    /\ ~LoopCondition
    /\ pc' = "create_stats"
    /\ UNCHANGED init_vars
    /\ UNCHANGED <<solver_vars, exception, user_enters_username,
                   games_completed, last_game_status, status, stats_vars,
                   screenshot, observer_vars>>

\* the window_size argument of start(): None, or an int
WindowSizes == {<<>>, <<0>>, <<3>>, <<5>>}

\* line 292: return self.create_stats(games_completed, window_size), where
\* the window_size argument of start() is read for the first time
CreateStats(ws) ==
    /\ pc = "create_stats"
    /\ window_size' = ws
    /\ LET returned == create_stats(games_completed, ws)
       IN  IF returned.ok
           THEN /\ pc' = "returned"
                /\ stats' = returned.value
                /\ exception' = exception
           ELSE /\ pc' = "raised"
                /\ exception' = "ZeroDivisionError"
                /\ stats' = stats
    /\ UNCHANGED init_vars
    /\ UNCHANGED <<solver_vars, user_enters_username, games_completed,
                   last_game_status, status, screenshot, observer_vars>>

Next ==
    \/ \E uu \in BOOLEAN, smiley_found \in BOOLEAN : Start(uu, smiley_found)
    \/ \E smiley_shot \in SmileyShots : Poll(smiley_shot)
    \/ \E act \in StrategyActs : NextMoveStrategy(act)
    \/ \E shot \in Rasters(board, ScreenBorderColors, ScreenColors) :
            UpdateBoard(shot)
    \/ Terminal
    \/ LoopExit
    \/ \E ws \in WindowSizes : CreateStats(ws)

Spec == Init /\ [][Next]_vars

(***************************************************************************)
(* The classifier alone: every board, every raster, one _update_board.     *)
(***************************************************************************)
\* every assignment of values to the fields of board b
Boards(b) ==
    {[r \in DOMAIN b |->
         [c \in DOMAIN b[r] |-> [b[r][c] EXCEPT !.value = v[<<r, c>>]]]] :
        v \in [Cells(b) -> FieldValue]}

InitClassify ==
    /\ columns \in 1 .. MaxClassifyCells
    /\ rows \in 1 .. MaxClassifyCells
    /\ columns * rows <= MaxClassifyCells
    /\ total_mines = 1
    /\ play_games = 1
    /\ stop_after_win = TRUE
    /\ moves_made = 0
    /\ total_moves = 0
    /\ best_win_moves = rows * columns + 1
    /\ game_history = <<>>
    /\ board \in Boards(_initialize_game_board(FIELD_DIAMETER \div 2))
    /\ screenshot \in Rasters(board, BorderColors, AllColors)
    /\ pc = "classify"
    /\ exception = ""
    /\ user_enters_username = TRUE
    /\ games_completed = 0
    /\ last_game_status = "ongoing"
    /\ status = "ongoing"
    /\ window_size = <<>>
    /\ stats = <<>>
    /\ InitConstructed
    /\ InitObservers

\* line 268 on the grabbed raster
Classify ==
    /\ pc = "classify"
    /\ board' = _update_board(board, screenshot)
    /\ pc' = "classified"
    /\ UNCHANGED init_vars
    /\ UNCHANGED <<columns, rows, total_mines, play_games, stop_after_win,
                   moves_made, total_moves, best_win_moves, game_history,
                   exception, user_enters_username, games_completed,
                   last_game_status, status, stats_vars, screenshot,
                   observer_vars>>

NextClassify == Classify

SpecClassify == InitClassify /\ [][NextClassify]_vars

(***************************************************************************)
(* The status detector alone: every smiley raster, one check_game_status.  *)
(***************************************************************************)
InitStatus ==
    /\ columns = 1
    /\ rows = 1
    /\ total_mines = 1
    /\ play_games = 1
    /\ stop_after_win = TRUE
    /\ moves_made = 0
    /\ total_moves = 0
    /\ best_win_moves = rows * columns + 1
    /\ game_history = <<>>
    /\ board = _initialize_game_board(FIELD_DIAMETER \div 2)
    /\ screenshot \in
           [{DEAD_SMILEY_MOUTH_CORNER_POS, COOL_SMILEY_GLASSES_CENTER_POS}
               -> AllColors]
    /\ pc = "check_game_status"
    /\ exception = ""
    /\ user_enters_username = TRUE
    /\ games_completed = 0
    /\ last_game_status = ""
    /\ status = ""
    /\ window_size = <<>>
    /\ stats = <<>>
    /\ InitConstructed
    /\ InitObservers

\* lines 360-368 on the grabbed smiley raster
CheckGameStatus ==
    /\ pc = "check_game_status"
    /\ status' = check_game_status(screenshot)
    /\ pc' = "status_checked"
    /\ UNCHANGED init_vars
    /\ UNCHANGED <<solver_vars, exception, user_enters_username,
                   games_completed, last_game_status, stats_vars, screenshot,
                   observer_vars>>

NextStatus == CheckGameStatus

SpecStatus == InitStatus /\ [][NextStatus]_vars

(***************************************************************************)
(* The board alone: any sequence of _update_board, toggle_flag and         *)
(* reset_board on boards of every shape.                                   *)
(***************************************************************************)
InitBoard ==
    /\ columns \in 1 .. MaxBoardCells
    /\ rows \in 1 .. MaxBoardCells
    /\ columns * rows <= MaxBoardCells
    /\ total_mines = 1
    /\ play_games = 1
    /\ stop_after_win = TRUE
    /\ moves_made = 0
    /\ total_moves = 0
    /\ best_win_moves = rows * columns + 1
    /\ game_history = <<>>
    /\ board = _initialize_game_board(FIELD_DIAMETER \div 2)
    /\ screenshot = <<>>
    /\ pc = "game"
    /\ exception = ""
    /\ user_enters_username = TRUE
    /\ games_completed = 0
    /\ last_game_status = ""
    /\ status = ""
    /\ window_size = <<>>
    /\ stats = <<>>
    /\ InitConstructed
    /\ InitObservers

board_unchanged ==
    <<columns, rows, total_mines, play_games, stop_after_win, moves_made,
      total_moves, best_win_moves, game_history, start_vars, stats_vars,
      init_vars, screenshot, observer_vars>>

BoardUpdate(shot) ==
    /\ pc = "game"
    /\ board' = _update_board(board, shot)
    /\ UNCHANGED board_unchanged

BoardToggleFlag(r, c) ==
    /\ pc = "game"
    /\ board' = toggle_flag(board, r, c)
    /\ UNCHANGED board_unchanged

BoardReset ==
    /\ pc = "game"
    /\ board' = reset_board(board)
    /\ UNCHANGED board_unchanged

NextBoard ==
    \/ \E shot \in Rasters(board, ScreenBorderColors,
                            {<<0, 0, 255>>, OtherColor}) : BoardUpdate(shot)
    \/ \E rc \in Cells(board) : BoardToggleFlag(rc[1], rc[2])
    \/ BoardReset

SpecBoard == InitBoard /\ [][NextBoard]_vars

(***************************************************************************)
(* The statistics alone: create_stats at the end of a run of play_games    *)
(* games, on every history _log_game can have recorded, with every         *)
(* window_size.                                                            *)
(***************************************************************************)
\* moves a recorded game can have taken
HistoryMoves == {1, 2}

\* every history of n games, in play order
Histories(n) ==
    {[i \in 1 .. n |->
         [id |-> i, result |-> g[i][1], total_moves |-> g[i][2]]] :
        g \in [1 .. n -> {"win", "loss"} \X HistoryMoves]}

InitStats ==
    /\ columns = 1
    /\ rows = 1
    /\ total_mines = 1
    /\ play_games \in 0 .. MaxHistory
    /\ stop_after_win = FALSE
    /\ moves_made = 0
    /\ total_moves = 0
    /\ game_history \in Histories(play_games)
    /\ best_win_moves =
           IF wins(game_history) > 0 THEN 0 ELSE rows * columns + 1
    /\ board = _initialize_game_board(FIELD_DIAMETER \div 2)
    /\ screenshot = <<>>
    /\ pc = "create_stats"
    /\ exception = ""
    /\ user_enters_username = FALSE
    /\ games_completed = Len(game_history)
    /\ last_game_status = ""
    /\ status = ""
    /\ window_size = <<>>
    /\ stats = <<>>
    /\ InitConstructed
    /\ InitObservers

NextStats == \E ws \in WindowSizes : CreateStats(ws)

SpecStats == InitStats /\ [][NextStats]_vars

(***************************************************************************)
(* Several calls of start() on one solver of a single field whose strategy *)
(* passes: after a call has returned or raised, start() is called again.   *)
(***************************************************************************)
InitCalls ==
    /\ Init
    /\ columns = 1
    /\ rows = 1

\* lines 230-245 of a later call: the attributes are as the previous call
\* left them, the locals start afresh
StartAgain(uu, smiley_found) ==
    /\ pc \in {"returned", "raised"}
    /\ Len(game_history) < MaxGames
    /\ user_enters_username' = uu
    /\ IF Conflict(uu)
       THEN /\ pc' = "raised"
            /\ exception' = "AttributeError"
            /\ UNCHANGED <<games_completed, last_game_status>>
       ELSE /\ games_completed' = 0
            /\ last_game_status' = ""
            /\ IF smiley_found
               THEN pc' = "loop" /\ exception' = ""
               ELSE pc' = "raised" /\ exception' = "ValueError"
    /\ debounced' = FALSE
    /\ terminal_runs' = 0
    /\ strategy_calls' = 0
    /\ ongoing_ticks' = 0
    /\ observed' = <<>>
    /\ UNCHANGED init_vars
    /\ UNCHANGED <<solver_vars, status, stats_vars, screenshot>>

\* one call of start() whose strategy passes
NextRun ==
    \/ \E uu \in BOOLEAN, smiley_found \in BOOLEAN : Start(uu, smiley_found)
    \/ \E smiley_shot \in SmileyShots : Poll(smiley_shot)
    \/ NextMoveStrategy(<<"none", 0, 0>>)
    \/ \E shot \in Rasters(board, {<<255, 255, 255>>}, {<<255, 255, 255>>}) :
            UpdateBoard(shot)
    \/ Terminal
    \/ LoopExit
    \/ \E ws \in WindowSizes : CreateStats(ws)

NextCalls ==
    \/ NextRun
    \/ \E uu \in BOOLEAN, smiley_found \in BOOLEAN :
            StartAgain(uu, smiley_found)

SpecCalls == InitCalls /\ [][NextCalls]_vars

(***************************************************************************)
(* One call of start() that is kept running, with a strategy that returns  *)
(* and a display on which every game ends and every reset shows.           *)
(***************************************************************************)
\* line 249 shows ONGOING
PollOngoing ==
    \E smiley_shot \in SmileyShots :
        check_game_status(smiley_shot) = "ongoing" /\ Poll(smiley_shot)

\* line 249 shows the game under way ended
PollGameEnds ==
    \E smiley_shot \in SmileyShots :
        /\ last_game_status = "ongoing"
        /\ check_game_status(smiley_shot) # "ongoing"
        /\ Poll(smiley_shot)

Fairness ==
    \* the strategy returns (line 258)
    /\ WF_vars(NextMoveStrategy(<<"none", 0, 0>>))
    \* the statements of the loop body and its condition run on
    /\ WF_vars(\E shot \in Rasters(board, {<<255, 255, 255>>},
                                    {<<255, 255, 255>>}) : UpdateBoard(shot))
    /\ WF_vars(Terminal)
    /\ WF_vars(LoopExit)
    \* every game reaches a terminal status after finitely many polls
    /\ WF_vars(PollGameEnds)
    \* the display shows ONGOING within finitely many polls after a reset
    /\ WF_vars(PollOngoing)

SpecFair == InitCalls /\ [][NextRun]_vars /\ Fairness

(***************************************************************************)
(* A call of start() on a solver of a single field that earlier calls have *)
(* used: each of them ended after one game of one move that the status     *)
(* detector reported as 'win' (play_games = 1, or stop_after_win).         *)
(***************************************************************************)
\* the game each earlier call logged (lines 273-275)
EarlierGame == [id |-> 1, result |-> "win", total_moves |-> 1]

InitLater ==
    /\ columns = 1
    /\ rows = 1
    /\ total_mines = 1
    /\ play_games \in 0 .. MaxGames
    /\ stop_after_win \in BOOLEAN
    /\ moves_made = 0
    /\ \E earlier \in 0 .. MaxHistory :
        /\ earlier > 0 => (play_games = 1 \/ (play_games > 1 /\ stop_after_win))
        /\ game_history = [i \in 1 .. earlier |-> EarlierGame]
        /\ total_moves = earlier
        /\ best_win_moves = IF earlier > 0 THEN 0 ELSE rows * columns + 1
    /\ board = _initialize_game_board(FIELD_DIAMETER \div 2)
    /\ pc = "idle"
    /\ exception = ""
    /\ user_enters_username = TRUE
    /\ games_completed = 0
    /\ last_game_status = ""
    /\ status = ""
    /\ screenshot = <<>>
    /\ window_size = <<>>
    /\ stats = <<>>
    /\ InitConstructed
    /\ InitObservers

SpecLater == InitLater /\ [][NextRun]_vars

(***************************************************************************)
(* Construction: one call of __init__ with a custom size, for every        *)
(* outcome of locating the two anchor images.                              *)
(***************************************************************************)
\* an attribute no statement has assigned yet
Unassigned == "unassigned"

InitConstruct ==
    /\ init_args \in
           [custom : {size \in (1 .. MaxBoardCells) \X (1 .. MaxBoardCells)
                                    \X {1} :
                         size[1] * size[2] <= MaxBoardCells},
            play_games : 0 .. MaxGames,
            stop_after_win : BOOLEAN]
    /\ located \in [first_field : BOOLEAN, happy_smiley : BOOLEAN]
    /\ columns = Unassigned
    /\ rows = Unassigned
    /\ total_mines = Unassigned
    /\ play_games = Unassigned
    /\ stop_after_win = Unassigned
    /\ moves_made = Unassigned
    /\ total_moves = Unassigned
    /\ best_win_moves = Unassigned
    /\ game_history = Unassigned
    /\ board = Unassigned
    /\ screenshot = <<>>
    /\ pc = "new"
    /\ exception = ""
    /\ user_enters_username = TRUE
    /\ games_completed = 0
    /\ last_game_status = ""
    /\ status = ""
    /\ window_size = <<>>
    /\ stats = <<>>
    /\ InitObservers

\* the instance attributes assigned when line 94 is evaluated (lines 91-92);
\* the class itself defines constants and methods only
AssignedAtLine94 == {"origin_field_pos", "smiley_pos"}

\* lines 91-139
Construct ==
    /\ pc = "new"
    /\ IF "origin_pos" \notin AssignedAtLine94
       THEN \* line 94 reads self.origin_pos
            /\ pc' = "raised"
            /\ exception' = "AttributeError"
            /\ UNCHANGED solver_vars
       ELSE IF ~located.first_field \/ ~located.happy_smiley
       THEN \* lines 95-102
            /\ pc' = "raised"
            /\ exception' = "RuntimeError"
            /\ UNCHANGED solver_vars
       ELSE \* lines 104-120
            /\ columns' = init_args.custom[1]
            /\ rows' = init_args.custom[2]
            /\ total_mines' = init_args.custom[3]
            /\ play_games' = init_args.play_games
            /\ stop_after_win' = init_args.stop_after_win
            /\ moves_made' = 0
            /\ total_moves' = 0
            /\ best_win_moves' = rows' * columns' + 1
            /\ game_history' = <<>>
            /\ board' = (_initialize_game_board(FIELD_DIAMETER \div 2))'
            /\ pc' = "idle"
            /\ exception' = exception
    /\ UNCHANGED init_vars
    /\ UNCHANGED <<user_enters_username, games_completed, last_game_status,
                   status, stats_vars, screenshot, observer_vars>>

NextConstruct == Construct

SpecConstruct == InitConstruct /\ [][NextConstruct]_vars

(***************************************************************************)
(* Properties.                                                             *)
(***************************************************************************)
Terminals == {"win", "loss"}

\* between two ticks of the loop, or after it
TickBoundary == pc \in {"loop", "create_stats", "returned", "raised"}

\* the loop of start() has been left
LoopEnded ==
    \/ pc \in {"create_stats", "returned"}
    \/ pc = "raised" /\ exception = "ZeroDivisionError"

\* a poll that shows the terminal status the previous poll showed
RepeatedTerminalPoll ==
    /\ pc = "loop"
    /\ LoopCondition
    /\ status \in Terminals
    /\ status' = status

AllUndiscovered(b) ==
    \A rc \in Cells(b) : b[rc[1]][rc[2]].value = "UNDISCOVERED"

RECURSIVE SumOngoing(_)
SumOngoing(log) ==
    IF log = <<>> THEN 0
    ELSE log[1].ongoing_ticks + SumOngoing(Tail(log))

\* ONGOING polls since start() was called
OngoingPolls == SumOngoing(observed) + ongoing_ticks

WinMoves == {game_history[i].total_moves :
                i \in {j \in 1 .. Len(game_history) :
                          game_history[j].result = "win"}}

\* C1: a run of identical terminal observations appends one GameResult and
\* counts one game (results and games_completed both equal the number of
\* runs seen), and every later observation of the run changes nothing: no
\* strategy call, no counter, no board cell, no position in the loop.
C1_Debounce ==
    /\ [](TickBoundary =>
            /\ Len(game_history) = terminal_runs
            /\ games_completed = terminal_runs)
    /\ [][RepeatedTerminalPoll =>
            UNCHANGED <<solver_vars, games_completed, last_game_status,
                        strategy_calls, pc>>]_vars

\* C1: a terminal status has been polled again and skipped, one result stands
C1_Witness ==
    /\ debounced
    /\ status \in Terminals
    /\ terminal_runs = 1
    /\ Len(game_history) = 1
    /\ games_completed < play_games

\* C2: every GameResult records the status whose observation appended it.
C2_ResultIsObservedStatus ==
    \A i \in 1 .. Len(game_history) :
        i <= Len(observed) => game_history[i].result = observed[i].status

\* C3: total_moves of every GameResult is the number of ONGOING ticks of its
\* game; the terminal tick adds nothing.
C3_TotalMovesAreOngoingTicks ==
    \A i \in 1 .. Len(game_history) :
        i <= Len(observed) =>
            game_history[i].total_moves = observed[i].ongoing_ticks

\* C4: the strategy is called once per ONGOING tick and on no other tick, so
\* between ticks the calls made equal the ONGOING polls seen.
C4_StrategyOnlyWhenOngoing == TickBoundary => strategy_calls = OngoingPolls

\* C5: once a win is in the history, best_win_moves is the least total_moves
\* of the winning GameResults.
C5_BestWinIsMinimum ==
    (TickBoundary /\ WinMoves # {}) =>
        /\ best_win_moves \in WinMoves
        /\ \A m \in WinMoves : best_win_moves <= m

\* C6: the loop is left exactly when games_completed = play_games, or right
\* after a new WIN with stop_after_win; a LOSS never leaves it by itself;
\* no more than play_games results are appended.
C6_StopCondition ==
    /\ [](LoopEnded =>
            \/ games_completed = play_games
            \/ stop_after_win /\ status = "win")
    /\ [](Len(game_history) <= play_games /\ games_completed <= play_games)
    /\ [][/\ (pc = "loop" /\ games_completed = play_games
                 => pc' = "create_stats")
           /\ (pc = "loop" /\ games_completed < play_games
                 => pc' # "create_stats")
           /\ (pc = "terminal" /\ status = "win" /\ stop_after_win
                 => pc' = "create_stats")
           /\ (pc = "terminal" /\ ~(status = "win" /\ stop_after_win)
                 => pc' = "loop")]_vars

\* C6: a lost game was followed by another game, and the loop ended at
\* play_games results
C6_Witness ==
    /\ LoopEnded
    /\ play_games = 2
    /\ games_completed = 2
    /\ observed[1].status = "loss"

\* C7: the reset after a new terminal observation leaves every field
\* UNDISCOVERED and moves_made 0.
C7_Reset ==
    [][pc = "terminal" /\ pc' = "loop" =>
        AllUndiscovered(board') /\ moves_made' = 0]_vars

\* C7: a game of several moves was logged and the board reset
C7_Witness ==
    /\ pc = "loop"
    /\ status \in Terminals
    /\ games_completed >= 1
    /\ game_history[games_completed].total_moves >= 2
    /\ AllUndiscovered(board)
    /\ moves_made = 0

\* C8: _update_board leaves every field whose value is not UNDISCOVERED as
\* it is, whatever the raster.
C8_ClassificationStable ==
    [][pc = "update" =>
        \A rc \in Cells(board) :
            board[rc[1]][rc[2]].value # "UNDISCOVERED" =>
                board'[rc[1]][rc[2]].value = board[rc[1]][rc[2]].value]_vars

\* C8: a refresh has run over a board holding a flagged field
C8_Witness ==
    /\ pc = "loop"
    /\ status = "ongoing"
    /\ \E rc \in Cells(board) : board[rc[1]][rc[2]].value = "FLAGGED"

\* C9 as stated: within a game no operation changes a field whose value is
\* not UNDISCOVERED.
C9_NeverOverwritten ==
    [][~(pc = "terminal" /\ pc' = "loop") =>
        \A rc \in Cells(board) :
            board[rc[1]][rc[2]].value # "UNDISCOVERED" =>
                board'[rc[1]][rc[2]].value = board[rc[1]][rc[2]].value]_vars

\* C9 amended: within a game a field whose value is not UNDISCOVERED is
\* changed by toggle_flag on that field alone; the board refresh, click_field
\* and toggle_flag on another field leave it as it is.
C9_OverwrittenOnlyByToggle ==
    [][\A rc \in Cells(board) :
        (/\ board[rc[1]][rc[2]].value # "UNDISCOVERED"
         /\ board'[rc[1]][rc[2]].value # board[rc[1]][rc[2]].value)
            => \/ pc = "terminal" /\ pc' = "loop"
               \/ pc = "strategy" /\ board' = toggle_flag(board, rc[1], rc[2])
      ]_vars

\* C9: a field revealed by the first refresh of a game is still ONE after
\* the second strategy call of that game
C9_Witness ==
    /\ pc = "update"
    /\ moves_made = 2
    /\ \E rc \in Cells(board) : board[rc[1]][rc[2]].value = "ONE"

\* C10: an UNDISCOVERED field whose border pixel is the covered colour stays
\* UNDISCOVERED, whatever its centre pixel.
C10_CoveredBorderKeepsUndiscovered ==
    [][pc = "classify" =>
        \A rc \in Cells(board) :
            (/\ board[rc[1]][rc[2]].value = "UNDISCOVERED"
             /\ screenshot[BorderPoint(board[rc[1]][rc[2]])]
                    = <<255, 255, 255>>)
                => board'[rc[1]][rc[2]].value = "UNDISCOVERED"]_vars

\* C10: a field with a covered border and the centre colour of ONE was
\* classified and is still UNDISCOVERED
C10_Witness ==
    /\ pc = "classified"
    /\ \E rc \in Cells(board) :
        /\ board[rc[1]][rc[2]].value = "UNDISCOVERED"
        /\ screenshot[BorderPoint(board[rc[1]][rc[2]])] = <<255, 255, 255>>
        /\ screenshot[CenterPoint(board[rc[1]][rc[2]])] = <<0, 0, 255>>

\* the palette as the design documents it
Palette(color) ==
    CASE color = <<255, 255, 255>> -> "UNDISCOVERED"
      [] color = <<0, 0, 255>> -> "ONE"
      [] color = <<0, 123, 0>> -> "TWO"
      [] color = <<255, 0, 0>> -> "THREE"
      [] color = <<0, 0, 123>> -> "FOUR"
      [] color = <<128, 0, 0>> -> "FIVE"
      [] color = <<19, 130, 130>> -> "SIX"
      [] color = <<0, 0, 0>> -> "SEVEN"
      [] color = <<123, 123, 123>> -> "EIGHT"
      [] OTHER -> "EMPTY"

\* C11: an UNDISCOVERED field whose border pixel is not the covered colour
\* takes the palette value of its centre pixel: the eight colours give
\* ONE..EIGHT, (255,255,255) gives UNDISCOVERED, any other colour EMPTY.
C11_PaletteLookup ==
    [][pc = "classify" =>
        \A rc \in Cells(board) :
            (/\ board[rc[1]][rc[2]].value = "UNDISCOVERED"
             /\ screenshot[BorderPoint(board[rc[1]][rc[2]])]
                    # <<255, 255, 255>>)
                => board'[rc[1]][rc[2]].value =
                       Palette(screenshot[CenterPoint(board[rc[1]][rc[2]])])
      ]_vars

\* C11: a field with a revealed border and a white centre was classified
\* and came out UNDISCOVERED (only an UNDISCOVERED field can)
C11_Witness ==
    /\ pc = "classified"
    /\ \E rc \in Cells(board) :
        /\ board[rc[1]][rc[2]].value = "UNDISCOVERED"
        /\ screenshot[BorderPoint(board[rc[1]][rc[2]])] = <<128, 128, 128>>
        /\ screenshot[CenterPoint(board[rc[1]][rc[2]])] = <<255, 255, 255>>

\* C12: a black dead-smiley mouth corner reports the game lost; otherwise a
\* black cool-smiley glasses centre reports it won; otherwise it is ongoing.
C12_StatusMapping ==
    pc = "status_checked" =>
        status =
            IF screenshot[DEAD_SMILEY_MOUTH_CORNER_POS] = <<0, 0, 0>>
            THEN "loss"
            ELSE IF screenshot[COOL_SMILEY_GLASSES_CENTER_POS] = <<0, 0, 0>>
            THEN "win"
            ELSE "ongoing"

\* C13: in every state the field at row r, column c has id c + r*columns,
\* the ids are exactly 0 .. rows*columns-1 without duplicates, pos_to_screen
\* is origin + (c*diameter, r*diameter) and pos_to_board is pos_to_screen -
\* origin + radius: no operation touches the geometry.
C13_Geometry ==
    /\ DOMAIN board = 0 .. rows - 1
    /\ \A r \in 0 .. rows - 1 :
        /\ DOMAIN board[r] = 0 .. columns - 1
        /\ \A c \in 0 .. columns - 1 :
            /\ board[r][c].id = c + r * columns
            /\ board[r][c].pos_to_screen =
                   <<origin_field_pos[1] + c * FIELD_DIAMETER,
                     origin_field_pos[2] + r * FIELD_DIAMETER>>
            /\ board[r][c].pos_to_board =
                   <<board[r][c].pos_to_screen[1] - origin_field_pos[1]
                        + FIELD_DIAMETER \div 2,
                     board[r][c].pos_to_screen[2] - origin_field_pos[2]
                        + FIELD_DIAMETER \div 2>>
    /\ {board[rc[1]][rc[2]].id : rc \in Cells(board)}
           = 0 .. rows * columns - 1
    /\ Cardinality(Cells(board)) = rows * columns

\* C13: a 2 x 2 board after a refresh and a toggle_flag
C13_Witness ==
    /\ rows = 2
    /\ columns = 2
    /\ board[1][0].id = 2
    /\ board[1][1].value = "ONE"
    /\ board[0][1].value = "FLAGGED"

\* the games of the history with the given result
GamesWith(result) ==
    {i \in DOMAIN game_history : game_history[i].result = result}

\* the longest contiguous run of the given result in play order, 0 if none
LongestRun(result) ==
    LET runs == {<<i, j>> \in (DOMAIN game_history) \X (DOMAIN game_history) :
                    /\ i <= j
                    /\ \A n \in i .. j : game_history[n].result = result}
    IN  IF runs = {} THEN 0
        ELSE CHOOSE m \in {r[2] - r[1] + 1 : r \in runs} :
                 \A r \in runs : r[2] - r[1] + 1 <= m

\* create_stats has been called and has returned or raised
StatsCalled == pc \in {"returned", "raised"}

\* C14: for a non-empty history with games_completed = len(history),
\* create_stats returns wins = number of wins, losses = len - wins,
\* win_rate = wins / len, and the longest runs of wins and of losses.
C14_CountsAndStreaks ==
    (StatsCalled /\ game_history # <<>>
        /\ games_completed = Len(game_history)) =>
        /\ pc = "returned"
        /\ stats.wins = Cardinality(GamesWith("win"))
        /\ stats.losses = Len(game_history) - stats.wins
        /\ stats.win_rate.num * Len(game_history)
               = stats.wins * stats.win_rate.den
        /\ stats.longest_win_streak = LongestRun("win")
        /\ stats.longest_loss_streak = LongestRun("loss")

\* C15: with fewer games than the window length of calculate_consistency
\* the call never ends in a division fault.
C15_NoFaultWithoutWindow ==
    (StatsCalled /\ Len(game_history) < CONSISTENCY_K) =>
        exception # "ZeroDivisionError"

\* the +1 / -1 outcomes of the history in play order
Outcomes ==
    [i \in DOMAIN game_history |->
        IF game_history[i].result = "win" THEN 1 ELSE -1]

\* the window length the documentation names: the argument when one is
\* given, max(games_played // 30, 3) otherwise
DocumentedWindow ==
    IF window_size = <<>> THEN max(games_completed \div 30, 3)
    ELSE window_size[1]

\* C16: whenever the history holds a window of the documented length,
\* create_stats returns the consistency computed over windows of that
\* length, which is the length it reports as window_size.
C16_ConsistencyUsesWindowSize ==
    (StatsCalled /\ games_completed > 0
        /\ calculate_consistency(Outcomes, DocumentedWindow).ok) =>
        /\ pc = "returned"
        /\ stats.window_size = DocumentedWindow
        /\ stats.consistency
               = calculate_consistency(Outcomes, DocumentedWindow).value

\* the means of the windows of length k, in order
WindowMeans(k) ==
    [i \in 1 .. Len(Outcomes) - k + 1 |->
        Fraction(sum(SubSeq(Outcomes, i, i + k - 1)), k)]

FractionAbs(a) == [num |-> abs(a.num), den |-> a.den]

\* the mean of the absolute distances of the values from their mean
MeanDeviation(values) ==
    LET mean == FractionDiv(fsum(values), Len(values))
    IN  FractionDiv(
            fsum([i \in DOMAIN values |->
                     FractionAbs(FractionSub(values[i], mean))]),
            Len(values))

\* C17: the consistency returned is the mean absolute deviation of the
\* window-means from their overall mean: 0 when they are all equal and
\* non-zero otherwise.
C17_MeanAbsoluteDeviation ==
    pc = "returned" =>
        /\ stats.consistency = MeanDeviation(WindowMeans(CONSISTENCY_K))
        /\ (stats.consistency.num = 0) <=>
               (\A i, j \in DOMAIN WindowMeans(CONSISTENCY_K) :
                    WindowMeans(CONSISTENCY_K)[i]
                        = WindowMeans(CONSISTENCY_K)[j])

\* C18: with no game played create_stats returns a stats record.
C18_NoGamesReturns ==
    (StatsCalled /\ games_completed = 0) =>
        /\ pc = "returned"
        /\ exception = ""

\* the moves of the given games of the history, added up
RECURSIVE MovesOf(_)
MovesOf(games) ==
    IF games = {} THEN 0
    ELSE LET i == CHOOSE g \in games : TRUE
         IN  game_history[i].total_moves + MovesOf(games \ {i})

\* C19: whenever create_stats returns, total_moves is the sum over all
\* games, total_moves_wins and total_moves_losses are the sums over the
\* winning and the losing games and add up to it, and each average is its
\* sum divided by the number of such games, 0 when there is none.
C19_MovesSumsAndAverages ==
    pc = "returned" =>
        LET won == GamesWith("win")
            lost == GamesWith("loss")
            moves == stats.moves
        IN  /\ moves.total_moves = MovesOf(DOMAIN game_history)
            /\ moves.total_moves_wins = MovesOf(won)
            /\ moves.total_moves_losses = MovesOf(lost)
            /\ moves.total_moves_wins + moves.total_moves_losses
                   = moves.total_moves
            /\ IF won = {} THEN moves.avg_moves_win.num = 0
               ELSE moves.avg_moves_win.num * Cardinality(won)
                        = MovesOf(won) * moves.avg_moves_win.den
            /\ IF lost = {} THEN moves.avg_moves_loss.num = 0
               ELSE moves.avg_moves_loss.num * Cardinality(lost)
                        = MovesOf(lost) * moves.avg_moves_loss.den

\* C19: a returned record over wins and losses with a fractional average
C19_Witness ==
    /\ pc = "returned"
    /\ GamesWith("win") # {}
    /\ GamesWith("loss") # {}
    /\ stats.moves.avg_moves_win.den > 1
    /\ stats.moves.total_moves_losses > Cardinality(GamesWith("loss"))

\* C20: what start() returns holds the history under 'history' and the
\* statistics under 'stats'.
C20_ReturnsHistoryAndStats ==
    pc = "returned" =>
        /\ {"history", "stats"} \subseteq DOMAIN stats
        /\ stats["history"] = game_history

\* C21 as stated: the conflict is rejected when the solver is constructed,
\* so no constructed solver ever has start() under way with
\* user_enters_username = True and stop_after_win = False.
C21_RejectedAtConstruction ==
    pc # "idle" => ~(user_enters_username /\ ~stop_after_win)

\* C21: a start() with user_enters_username = True on a solver constructed
\* with stop_after_win = False ends with AttributeError, and no tick, no
\* strategy call and no board or counter change has happened.
C21_RejectedByStart ==
    (pc # "idle" /\ user_enters_username /\ ~stop_after_win) =>
        /\ pc = "raised"
        /\ exception = "AttributeError"
        /\ strategy_calls = 0
        /\ ongoing_ticks = 0
        /\ terminal_runs = 0
        /\ moves_made = 0
        /\ total_moves = 0
        /\ games_completed = 0
        /\ game_history = <<>>
        /\ AllUndiscovered(board)

\* C21: start() has rejected the conflict on a constructed solver
C21_Witness ==
    /\ pc = "raised"
    /\ exception = "AttributeError"
    /\ user_enters_username
    /\ ~stop_after_win
    /\ play_games > 0

\* C22: once __init__ has run, the solver exists with a rows x columns
\* board of UNDISCOVERED fields if both anchor images were located, and
\* RuntimeError was raised if one was not.
C22_ConstructionOutcome ==
    pc # "new" =>
        IF located.first_field /\ located.happy_smiley
        THEN /\ pc = "idle"
             /\ columns = init_args.custom[1]
             /\ rows = init_args.custom[2]
             /\ Cardinality(Cells(board)) = rows * columns
             /\ AllUndiscovered(board)
        ELSE /\ pc = "raised"
             /\ exception = "RuntimeError"

\* C23: at a new terminal observation after which the loop stops, because
\* games_completed has reached play_games or because of a win with
\* stop_after_win, no reset is issued: the fields keep their values.
C23_NoResetWhenLoopStops ==
    [][(pc = "terminal"
            /\ (games_completed' >= play_games
                    \/ (status = "win" /\ stop_after_win))) =>
        board' = board]_vars

\* C24: game_history only grows at its end, and whenever a call of start()
\* hands games_completed to create_stats it equals len(game_history) and
\* the i-th entry of the history has id i.
C24_HistoryBookkeeping ==
    [][/\ Len(game_history') >= Len(game_history)
       /\ SubSeq(game_history', 1, Len(game_history)) = game_history
       /\ pc' = "create_stats" =>
              /\ games_completed' = Len(game_history')
              /\ \A i \in DOMAIN game_history' : game_history'[i].id = i]_vars

\* C25: between ticks, total_moves is the sum of total_moves over the
\* GameResults of the history plus moves_made, and when start() returns,
\* the moves.total_moves it reports is the solver's total_moves.
C25_MoveConservation ==
    /\ TickBoundary =>
           total_moves = MovesOf(DOMAIN game_history) + moves_made
    /\ pc = "returned" => stats.moves.total_moves = total_moves

\* C25: start() has returned statistics after a game of several moves
C25_Witness ==
    /\ pc = "returned"
    /\ games_completed > 0
    /\ game_history[Len(game_history)].total_moves > 1
    /\ total_moves > Len(game_history)

\* C26: with a strategy that returns, games that end and resets that show,
\* the loop of start() is left in the end; and a poll skipped by the
\* debounce leaves the loop where it was, with the same condition, the same
\* remembered terminal status and nothing counted, so that it is skipped
\* again for as long as the display keeps that status.
C26_Termination ==
    /\ (pc = "loop") ~> LoopEnded
    /\ [][(\E smiley_shot \in SmileyShots : Poll(smiley_shot) /\ debounced') =>
            /\ pc' = "loop"
            /\ LoopCondition'
            /\ status' \in Terminals
            /\ IsRepeat(status', last_game_status')
            /\ UNCHANGED <<solver_vars, games_completed, strategy_calls>>]_vars

\* C26: the loop has ended after two games, the second begun with ONGOING
\* shown after the reset
C26_Witness ==
    /\ pc = "create_stats"
    /\ play_games = 2
    /\ games_completed = 2
    /\ Len(observed) = 2
    /\ observed[2].ongoing_ticks > 0

=============================================================================
